---------------------------- MODULE Spec2Model ----------------------------
(***************************************************************************)
(* Model of src/transfom.py: main() prints a prompt, collects lines from   *)
(* standard input until an empty line or end-of-input, escapes backslashes *)
(* and double quotes in each collected line, and prints every escaped line *)
(* as a quoted string-literal fragment followed by the terminator "".      *)
(*                                                                         *)
(* A string is a sequence of one-character strings.  Standard output is    *)
(* the sequence of characters written so far, line feeds included.  The    *)
(* two fixed CJK texts (prompt, header) are each one opaque character.     *)
(***************************************************************************)
EXTENDS Naturals, Sequences, FiniteSets

\* ------------------------------------------------------------- bounds
\* Most lines standard input holds, and most characters in all of them.
MaxLines == 3
MaxChars == 4

\* ---------------------------------------------------------- characters
BS == "\\"
DQ == "\""
LF == "\n"
LetterN == "n"
SP == " "
PLUS == "+"
PromptText == <<"PROMPT">>
HeaderText == <<"HEADER">>

\* Characters a raw input line is drawn from: the two the escape rewrites
\* and one ordinary character.
Alphabet == {BS, DQ, "A"}

RECURSIVE SeqsUpTo(_, _)
SeqsUpTo(S, n) ==
    IF n = 0 THEN {<<>>}
    ELSE LET shorter == SeqsUpTo(S, n - 1)
         IN  shorter \cup {Append(s, x) : s \in {t \in shorter : Len(t) = n - 1}, x \in S}

\* The streams of at most k lines holding at most c characters in all.
RECURSIVE Streams(_, _)
Streams(k, c) ==
    IF k = 0 THEN {<<>>}
    ELSE {<<>>} \cup
         UNION {{<<l>> \o s : s \in Streams(k - 1, c - Len(l))} : l \in SeqsUpTo(Alphabet, c)}

InputStreams == Streams(MaxLines, MaxChars)

\* Value of the local `line` before the first assignment to it.
Unbound == <<"UNBOUND">>

VARIABLES
    stdin,          \* the lines standard input will deliver, then end-of-input
    pos,            \* number of lines of stdin consumed by input()
    pc,             \* position of main()
    exc,            \* exception raised by input() and not yet handled
    line,           \* local `line`
    lines,          \* local `lines`
    escaped_lines,  \* local `escaped_lines`
    idx,            \* number of elements the for loop has taken
    stdout          \* characters written to standard output

vars == <<stdin, pos, pc, exc, line, lines, escaped_lines, idx, stdout>>

\* ------------------------------------------------------ pure functions

\* str.replace(old, new) for a one-character old: every occurrence, left
\* to right, in one scan of the receiver.
RECURSIVE Replace(_, _, _)
Replace(s, old, new) ==
    IF s = <<>> THEN <<>>
    ELSE (IF Head(s) = old THEN new ELSE <<Head(s)>>) \o Replace(Tail(s), old, new)

EscapeQuoteFirst(l) == Replace(Replace(l, DQ, <<BS, DQ>>), BS, <<BS, BS>>)

EscapeQuotesOnly(l) == Replace(l, DQ, <<BS, DQ>>)

\* line.replace("\\", "\\\\").replace('"', '\\"')
Escape(l) == Replace(Replace(l, BS, <<BS, BS>>), DQ, <<BS, DQ>>)

\* f'"{l}\\n" +'
Fragment(l) == <<DQ>> \o l \o <<BS, LetterN, DQ, SP, PLUS>>

\* print(s): the text and a line feed
print(s) == stdout' = stdout \o s \o <<LF>>

CatchesAnything(e) == e \in {"EOFError", "KeyboardInterrupt"}

CatchesOnlyInterrupt(e) == e = "KeyboardInterrupt"

\* except EOFError:
Catches(e) == e = "EOFError"

\* ------------------------------------------------------------- actions
Init ==
    /\ stdin \in InputStreams
    /\ pos = 0
    /\ pc = "prompt"
    /\ exc = "none"
    /\ line = Unbound
    /\ lines = <<>>
    /\ escaped_lines = <<>>
    /\ idx = 0
    /\ stdout = <<>>

\* line 2
PrintPrompt ==
    /\ pc = "prompt"
    /\ print(PromptText)
    /\ pc' = "input"
    /\ UNCHANGED <<stdin, pos, exc, line, lines, escaped_lines, idx>>

\* line 7, input() returns the next line
InputLine ==
    /\ pc = "input"
    /\ pos < Len(stdin)
    /\ line' = stdin[pos + 1]
    /\ pos' = pos + 1
    /\ pc' = "test"
    /\ UNCHANGED <<stdin, exc, lines, escaped_lines, idx, stdout>>

\* line 7, input() finds standard input exhausted
InputEOF ==
    /\ pc = "input"
    /\ pos = Len(stdin)
    /\ exc' = "EOFError"
    /\ pc' = "except"
    /\ UNCHANGED <<stdin, pos, line, lines, escaped_lines, idx, stdout>>

\* line 7, the user interrupts the blocked input()
InputInterrupt ==
    /\ pc = "input"
    /\ exc' = "KeyboardInterrupt"
    /\ pc' = "except"
    /\ UNCHANGED <<stdin, pos, line, lines, escaped_lines, idx, stdout>>

ExceptContinue ==
    /\ pc = "except"
    /\ Catches(exc)
    /\ exc' = "none"
    /\ pc' = "input"
    /\ UNCHANGED <<stdin, pos, line, lines, escaped_lines, idx, stdout>>

\* lines 8-9: the handler breaks out of the loop
ExceptBreak ==
    /\ pc = "except"
    /\ Catches(exc)
    /\ exc' = "none"
    /\ pc' = "escape"
    /\ UNCHANGED <<stdin, pos, line, lines, escaped_lines, idx, stdout>>

\* line 8: no handler matches, the exception leaves main()
ExceptPropagate ==
    /\ pc = "except"
    /\ ~Catches(exc)
    /\ pc' = "crashed"
    /\ UNCHANGED <<stdin, pos, exc, line, lines, escaped_lines, idx, stdout>>

TestLineAppendThenBreak ==
    /\ pc = "test"
    /\ lines' = Append(lines, line)
    /\ pc' = IF line = <<>> THEN "escape" ELSE "input"
    /\ UNCHANGED <<stdin, pos, exc, line, escaped_lines, idx, stdout>>

TestLineSkipEmpty ==
    /\ pc = "test"
    /\ lines' = IF line = <<>> THEN lines ELSE Append(lines, line)
    /\ pc' = "input"
    /\ UNCHANGED <<stdin, pos, exc, line, escaped_lines, idx, stdout>>

\* lines 10-12
TestLine ==
    /\ pc = "test"
    /\ IF line = <<>>
       THEN /\ pc' = "escape"
            /\ lines' = lines
       ELSE /\ lines' = Append(lines, line)
            /\ pc' = "input"
    /\ UNCHANGED <<stdin, pos, exc, line, escaped_lines, idx, stdout>>

EscapeAllTwice ==
    /\ pc = "escape"
    /\ escaped_lines' = [k \in DOMAIN lines |-> Escape(Escape(lines[k]))]
    /\ pc' = "header"
    /\ UNCHANGED <<stdin, pos, exc, line, lines, idx, stdout>>

\* line 15
EscapeAll ==
    /\ pc = "escape"
    /\ escaped_lines' = [k \in DOMAIN lines |-> Escape(lines[k])]
    /\ pc' = "header"
    /\ UNCHANGED <<stdin, pos, exc, line, lines, idx, stdout>>

PrintHeaderNoBlankLines ==
    /\ pc = "header"
    /\ print(HeaderText)
    /\ pc' = "for"
    /\ UNCHANGED <<stdin, pos, exc, line, lines, escaped_lines, idx>>

\* line 18
PrintHeader ==
    /\ pc = "header"
    /\ print(<<LF>> \o HeaderText \o <<LF>>)
    /\ pc' = "for"
    /\ UNCHANGED <<stdin, pos, exc, line, lines, escaped_lines, idx>>

ForLoopDropLast ==
    /\ pc = "for"
    /\ IF idx + 1 < Len(escaped_lines)
       THEN /\ print(Fragment(escaped_lines[idx + 1]))
            /\ idx' = idx + 1
            /\ pc' = "for"
       ELSE /\ pc' = "terminator"
            /\ UNCHANGED <<idx, stdout>>
    /\ UNCHANGED <<stdin, pos, exc, line, lines, escaped_lines>>

\* lines 19-20
ForLoop ==
    /\ pc = "for"
    /\ IF idx < Len(escaped_lines)
       THEN /\ print(Fragment(escaped_lines[idx + 1]))
            /\ idx' = idx + 1
            /\ pc' = "for"
       ELSE /\ pc' = "terminator"
            /\ UNCHANGED <<idx, stdout>>
    /\ UNCHANGED <<stdin, pos, exc, line, lines, escaped_lines>>

\* line 21
PrintTerminator ==
    /\ pc = "terminator"
    /\ print(<<DQ, DQ>>)
    /\ pc' = "done"
    /\ UNCHANGED <<stdin, pos, exc, line, lines, escaped_lines, idx>>

\* The steps main() takes by itself, given what standard input delivers.
Program ==
    \/ PrintPrompt
    \/ InputLine
    \/ InputEOF
    \/ ExceptBreak
    \/ ExceptPropagate
    \/ TestLine
    \/ EscapeAll
    \/ PrintHeader
    \/ ForLoop
    \/ PrintTerminator

Next ==
    \/ Program
    \/ InputInterrupt

Spec == Init /\ [][Next]_vars

\* A sequential program takes its next step, and a finite standard input
\* answers every input() with a line or with end-of-input.
FairSpec == Spec /\ WF_vars(Program)

\* --------------------------------------------- vocabulary of the claims
Collecting == {"input", "except", "test"}
Formatting == {"escape", "header", "for", "terminator"}
AfterCollecting == Formatting \cup {"done"}
AfterEscaping == {"header", "for", "terminator", "done"}

HasEmpty(s) == \E k \in DOMAIN s : s[k] = <<>>

\* Position of the first empty line of s (0: none).
FirstEmpty(s) ==
    IF HasEmpty(s)
    THEN CHOOSE k \in DOMAIN s : s[k] = <<>> /\ \A j \in 1..(k - 1) : s[j] # <<>>
    ELSE 0

\* Number of lines a run on s takes from standard input.
ReadLimit(s) == IF HasEmpty(s) THEN FirstEmpty(s) ELSE Len(s)

\* The lines of s in front of its first empty line (all of s: none).
BeforeFirstEmpty(s) ==
    IF HasEmpty(s) THEN SubSeq(s, 1, FirstEmpty(s) - 1) ELSE s

RECURSIVE Cat(_)
Cat(ss) == IF ss = <<>> THEN <<>> ELSE Head(ss) \o Cat(Tail(ss))

\* The escape as the specification words it: a character-by-character map.
RefEscapeChar(c) ==
    IF c = BS THEN <<BS, BS>> ELSE IF c = DQ THEN <<BS, DQ>> ELSE <<c>>

RefEscape(l) == Cat([k \in DOMAIN l |-> RefEscapeChar(l[k])])

RefFragment(l) == <<DQ>> \o RefEscape(l) \o <<BS, LetterN, DQ, SP, PLUS, LF>>

PromptOut == PromptText \o <<LF>>
HeaderOut == <<LF>> \o HeaderText \o <<LF, LF>>
TerminatorOut == <<DQ, DQ, LF>>

\* Standard output once the first n of the lines L have been emitted.
RefOutput(L, n) ==
    PromptOut \o HeaderOut \o Cat([k \in 1..n |-> RefFragment(L[k])])

\* The inverse scan: backslash,backslash -> backslash and
\* backslash,quote -> quote, left to right.
RECURSIVE Unescape(_)
Unescape(e) ==
    IF e = <<>> THEN <<>>
    ELSE IF Head(e) = BS /\ Len(e) >= 2 /\ e[2] \in {BS, DQ}
         THEN <<e[2]>> \o Unescape(SubSeq(e, 3, Len(e)))
         ELSE <<Head(e)>> \o Unescape(Tail(e))

\* Length of the run of backslashes that ends at position p of e.
RECURSIVE BsRun(_, _)
BsRun(e, p) == IF p = 0 \/ e[p] # BS THEN 0 ELSE 1 + BsRun(e, p - 1)

Odd(n) == n % 2 = 1

IsSpecial(c) == c \in {BS, DQ}
HasSpecial(l) == \E k \in DOMAIN l : IsSpecial(l[k])
CountSpecial(l) == Cardinality({k \in DOMAIN l : IsSpecial(l[k])})

\* Standard output cut at its line feeds; an unfinished last line counts.
RECURSIVE Split(_, _, _)
Split(s, cur, acc) ==
    IF s = <<>> THEN (IF cur = <<>> THEN acc ELSE Append(acc, cur))
    ELSE IF Head(s) = LF THEN Split(Tail(s), <<>>, Append(acc, cur))
         ELSE Split(Tail(s), Append(cur, Head(s)), acc)

OutputLines == Split(stdout, <<>>, <<>>)

\* -------------------------------------------------------------- claims

\* C1: when the input holds an empty line, collection ends with the line
\* buffer equal to the lines in front of the first empty line, in order,
\* and an empty line is never in the buffer.
C1_EmptyLineEndsCollection ==
    /\ \A k \in DOMAIN lines : lines[k] # <<>>
    /\ (pc \in AfterCollecting /\ HasEmpty(stdin)) =>
          /\ lines = SubSeq(stdin, 1, FirstEmpty(stdin) - 1)
          /\ Len(lines) = FirstEmpty(stdin) - 1
          /\ line = <<>>

C1_Witness ==
    /\ pc = "done"
    /\ FirstEmpty(stdin) = 3
    /\ Len(lines) = 2
    /\ lines[1] # lines[2]

\* C2: when standard input is exhausted before any empty line, the
\* EOFError is handled (it never leaves main), the line buffer is the whole
\* input in order, and the run ends having written the header, one
\* fragment per line and the terminator.
C2_EofEndsCollection ==
    /\ pc = "crashed" => exc # "EOFError"
    /\ (pc \in AfterCollecting /\ ~HasEmpty(stdin)) =>
          /\ lines = stdin
          /\ pos = Len(stdin)
          /\ exc = "none"
    /\ (pc = "done" /\ ~HasEmpty(stdin)) =>
          stdout = RefOutput(stdin, Len(stdin)) \o TerminatorOut

C2_Witness ==
    /\ pc = "done"
    /\ ~HasEmpty(stdin)
    /\ Len(stdin) = 2
    /\ stdin[1] # stdin[2]
    /\ stdout = PromptOut \o HeaderOut \o RefFragment(stdin[1])
                   \o RefFragment(stdin[2]) \o TerminatorOut

C2_WitnessNoLines ==
    /\ pc = "done"
    /\ stdin = <<>>
    /\ stdout = PromptOut \o HeaderOut \o TerminatorOut

\* C3: each escaped line is the raw line with every backslash doubled and
\* every quote given one backslash in front, other characters in place;
\* backslash,quote becomes backslash,backslash,backslash,quote.
C3_EscapeIsCharMap ==
    pc \in AfterEscaping =>
       /\ Len(escaped_lines) = Len(lines)
       /\ \A k \in DOMAIN lines :
             /\ escaped_lines[k] = RefEscape(lines[k])
             /\ lines[k] = <<BS, DQ>> => escaped_lines[k] = <<BS, BS, BS, DQ>>

C3_Witness ==
    /\ pc = "done"
    /\ \E k \in DOMAIN lines :
          /\ lines[k] = <<BS, DQ>>
          /\ escaped_lines[k] = <<BS, BS, BS, DQ>>

\* C4: after the header come exactly N content lines, the i-th the
\* fragment of the i-th collected line, then exactly one "" line; while
\* the loop runs, as many content lines as elements it has taken.
C4_FragmentCount ==
    /\ pc \in AfterEscaping => Len(escaped_lines) = Len(lines)
    /\ pc = "for" => Len(OutputLines) = 4 + idx
    /\ pc = "done" =>
          LET N == Len(lines)
              out == OutputLines
          IN  /\ Len(out) = 4 + N + 1
              /\ \A i \in 1..N :
                    out[4 + i] = <<DQ>> \o RefEscape(lines[i])
                                    \o <<BS, LetterN, DQ, SP, PLUS>>
              /\ out[4 + N + 1] = <<DQ, DQ>>
              /\ stdout[Len(stdout)] = LF

C4_Witness ==
    /\ pc = "done"
    /\ Len(lines) = 3
    /\ Len(OutputLines) = 8
    /\ lines[1] # lines[2]

C4_WitnessEmpty ==
    /\ pc = "done"
    /\ Len(lines) = 0
    /\ SubSeq(OutputLines, 5, Len(OutputLines)) = << <<DQ, DQ>> >>

\* C5: standard output is, at every position of the program, exactly the
\* prompt line, then (once collection has ended) a blank line, the header
\* and a blank line, then the fragments emitted so far in order, then the
\* terminator: nothing else, nothing between reads, nothing afterwards.
C5_OutputOrder ==
    stdout =
       CASE pc = "prompt" -> <<>>
         [] pc \in Collecting \cup {"crashed", "escape", "header"} -> PromptOut
         [] pc \in {"for", "terminator"} -> RefOutput(lines, idx)
         [] pc = "done" -> RefOutput(lines, Len(lines)) \o TerminatorOut

C5_Witness ==
    /\ pc = "done"
    /\ lines = << <<"A", DQ>>, <<BS>> >>
    /\ stdout = <<"PROMPT", LF, LF, "HEADER", LF, LF,
                  DQ, "A", BS, DQ, BS, "n", DQ, " ", "+", LF,
                  DQ, BS, BS, BS, "n", DQ, " ", "+", LF,
                  DQ, DQ, LF>>

\* C6 as claimed: an interrupt of a blocked input() falls through to the
\* formatting of the lines collected so far.
C6_InterruptFallsThrough ==
    [][(pc = "except" /\ exc = "KeyboardInterrupt") => pc' = "escape"]_vars

InterruptPropagates ==
    (pc = "except" /\ exc = "KeyboardInterrupt") =>
       (pc' = "crashed" /\ exc' = exc)

\* C6 as amended: an interrupt of a blocked input() is not handled: the
\* KeyboardInterrupt leaves main(), which writes nothing after the prompt
\* line, formats nothing and takes no further step.
C6_InterruptAborts ==
    /\ [](exc = "KeyboardInterrupt" =>
             /\ pc \in {"except", "crashed"}
             /\ stdout = PromptOut
             /\ escaped_lines = <<>>)
    /\ [][InterruptPropagates]_vars
    /\ [][pc # "crashed"]_vars

C6_Witness ==
    /\ pc = "crashed"
    /\ exc = "KeyboardInterrupt"
    /\ Len(lines) = 2
    /\ stdout = PromptOut

LeavesCollectingProperly ==
    (pc \in Collecting /\ pc' \notin Collecting \cup {"crashed"}) =>
       /\ pc' = "escape"
       /\ pos = ReadLimit(stdin)
       /\ \/ pc = "test" /\ line = <<>> /\ pos = FirstEmpty(stdin)
          \/ pc = "except" /\ exc = "EOFError" /\ ~HasEmpty(stdin)

FormattingIsFinal ==
    pc \in AfterCollecting =>
       /\ pc' \in AfterCollecting
       /\ lines' = lines
       /\ pos' = pos
       /\ line' = line

DoneFollowsTerminator ==
    pc' = "done" =>
       /\ pc = "terminator"
       /\ stdout' = stdout \o TerminatorOut

\* C7: collection is left only for the formatting, on the first empty
\* line or on end-of-input; from then on no step returns to collection,
\* reads input or changes the line buffer; the terminal state is entered
\* by the step that writes the terminator; and every run that no
\* interrupt aborts reaches it.
C7_TwoPhases ==
    /\ [][LeavesCollectingProperly]_vars
    /\ [][FormattingIsFinal]_vars
    /\ [][DoneFollowsTerminator]_vars
    /\ <>(pc = "done" \/ exc = "KeyboardInterrupt")

C7_Witness ==
    /\ pc = "done"
    /\ HasEmpty(stdin)
    /\ pos < Len(stdin)
    /\ Len(lines) = 1

\* C8: for a collected line with a backslash or a quote, escaping the
\* escaped line again changes it (one backslash: two, then four), and the
\* program's escaped line is the once-escaped one: each backslash and
\* quote of the raw line adds exactly one character.
C8_EscapeOnceNotIdempotent ==
    pc \in AfterEscaping =>
       \A k \in DOMAIN lines :
          /\ Len(escaped_lines[k]) = Len(lines[k]) + CountSpecial(lines[k])
          /\ HasSpecial(lines[k]) =>
                /\ Escape(Escape(lines[k])) # Escape(lines[k])
                /\ Escape(escaped_lines[k]) # escaped_lines[k]
                /\ escaped_lines[k] # Escape(Escape(lines[k]))
          /\ lines[k] = <<BS>> =>
                /\ escaped_lines[k] = <<BS, BS>>
                /\ Escape(escaped_lines[k]) = <<BS, BS, BS, BS>>

C8_Witness ==
    /\ pc = "done"
    /\ \E k \in DOMAIN lines :
          /\ lines[k] = <<BS>>
          /\ escaped_lines[k] = <<BS, BS>>
    /\ \E k \in DOMAIN lines : DQ \in {lines[k][j] : j \in DOMAIN lines[k]}

\* C9: no line behind the first empty line is ever taken from standard
\* input, the number of lines taken is the position of the first empty
\* line (the whole input when there is none), and the output of a finished
\* run is a function of the input up to its first empty line alone.
C9_NothingReadPastEmptyLine ==
    /\ pos <= ReadLimit(stdin)
    /\ \A k \in DOMAIN lines : lines[k] = stdin[k]
    /\ pc \in AfterCollecting => pos = ReadLimit(stdin)
    /\ pc = "done" =>
          LET taken == BeforeFirstEmpty(SubSeq(stdin, 1, ReadLimit(stdin)))
          IN  stdout = RefOutput(taken, Len(taken)) \o TerminatorOut

C9_Witness ==
    /\ pc = "done"
    /\ FirstEmpty(stdin) = 2
    /\ Len(stdin) = 3
    /\ stdin[3] # <<>>
    /\ pos = 2

\* C10: unescaping an escaped line gives back the raw line, distinct raw
\* lines have distinct escaped lines, every quote of an escaped line
\* follows an odd run of backslashes, and no escaped line ends in an odd
\* run of backslashes.
C10_EscapeLossless ==
    pc \in AfterEscaping =>
       /\ \A k \in DOMAIN lines :
             LET e == escaped_lines[k]
             IN  /\ Unescape(e) = lines[k]
                 /\ \A p \in DOMAIN e : e[p] = DQ => Odd(BsRun(e, p - 1))
                 /\ ~Odd(BsRun(e, Len(e)))
       /\ \A j, k \in DOMAIN lines :
             escaped_lines[j] = escaped_lines[k] => lines[j] = lines[k]

C10_Witness ==
    /\ pc = "done"
    /\ Len(lines) = 2
    /\ lines[1] = <<BS, DQ>>
    /\ lines[2] = <<DQ, BS>>
    /\ Unescape(escaped_lines[2]) = <<DQ, BS>>

=============================================================================
